---- MODULE Spec2Model ----
(***************************************************************************)
(* Model of the scan-pimping document pipeline (src/image_enhancer.py and  *)
(* its copy in src/pdf_enhancer.py): the geometry helpers order_rect and   *)
(* four_point_transform, and process_image_cv, the detector / rectifier /  *)
(* enhancer run on one image.                                              *)
(*                                                                         *)
(* Points are pairs <<x, y>> of integer pixel coordinates, as approxPolyDP *)
(* returns them.  Areas are kept doubled (cv2.contourArea of an integer    *)
(* polygon is a multiple of 1/2) and area_threshold_ratio is kept in       *)
(* hundredths, so that the comparison of line 216 is integer arithmetic.   *)
(* Lengths are kept squared; int(max(sqrt a, sqrt b)) is the integer       *)
(* square root of max(a, b).                                               *)
(***************************************************************************)
EXTENDS Integers, Sequences, FiniteSets, TLC

VARIABLES
    image,                 \* the input image of process_image_cv
    area_threshold_ratio,  \* in hundredths (40 is 0.4)
    upscale_factor,
    found,                 \* what cv2.findContours returns for the image
    contours,              \* the list after sorted(..., reverse=True)
    idx,                   \* position of the for loop over contours
    screenCnt,             \* None or the selected 4 points
    warped, upscaled, gray, binary,
    pc,                    \* position inside process_image_cv
    pts, rect, dims, gpc,  \* a direct call of the geometry helpers
    doc,                   \* the pages of the PDF given to enhance_pdf_from_path
    images,                \* the list pdf_to_images_in_memory returns
    processed,             \* processed_images, as far as it is built
    pageNo,                \* position of the comprehension over images
    output,                \* None or the pages written to output_path
    qpc,                   \* position inside enhance_pdf_from_path
    entry,                 \* the endpoint of app.py a request arrives at
    req,                   \* the request: file name and form fields
    hpc,                   \* position of the request inside the endpoints
    route,                 \* the endpoint /pimp handed the request to
    sentTo,                \* the pipeline whose try block the request entered
    status,                \* HTTP status of the response, 0 while there is none
    tmpIn, tmpOut,         \* the temporary input and output file
    used,                  \* the arguments the enhance function was called with
    args,                  \* parsed command line of main
    cpc,                   \* position inside main
    called,                \* main has called enhance_image_from_path
    rc                     \* what main returned, -1 until it has

vars == <<image, area_threshold_ratio, upscale_factor, found, contours, idx,
          screenCnt, warped, upscaled, gray, binary, pc, pts, rect, dims, gpc,
          doc, images, processed, pageNo, output, qpc,
          entry, req, hpc, route, sentTo, status, tmpIn, tmpOut, used,
          args, cpc, called, rc>>

pipeVars == <<image, area_threshold_ratio, upscale_factor, found, contours, idx,
              screenCnt, warped, upscaled, gray, binary, pc>>

geomVars == <<pts, rect, dims, gpc>>

pdfVars == <<doc, images, processed, pageNo, output, qpc>>

httpVars == <<entry, req, hpc, route, sentTo, status, tmpIn, tmpOut, used>>

cliVars == <<args, cpc, called, rc>>

appVars == <<httpVars, cliVars>>

-----------------------------------------------------------------------------
(* Bounds of the model *)

MaxCoord == 2
MaxContours == 2

Coords == 0..MaxCoord
Grid == Coords \X Coords

None == <<>>
NoImage == [w |-> 0, h |-> 0, ch |-> 0, buf |-> "none", vals |-> {}, kind |-> "none"]

\* no request and no command line: the endpoints and main are not running
NoCall == [pipeline |-> "none"]
NoRequest == [filename |-> <<>>, dpi |-> 0, area_threshold |-> 0, upscale_factor |-> 0]
NoArgs == [exists |-> FALSE, area_threshold |-> 0, upscale |-> 0, quality |-> 0, raises |-> FALSE]

HttpIdle ==
    /\ entry = "none"
    /\ req = NoRequest
    /\ hpc = "off"
    /\ route = "none"
    /\ sentTo = "none"
    /\ status = 0
    /\ tmpIn = "unbound"
    /\ tmpOut = "unbound"
    /\ used = NoCall

CliIdle ==
    /\ args = NoArgs
    /\ cpc = "off"
    /\ called = FALSE
    /\ rc = -1

Max(a, b) == IF a >= b THEN a ELSE b
Min(a, b) == IF a <= b THEN a ELSE b
Abs(a) == IF a >= 0 THEN a ELSE -a

-----------------------------------------------------------------------------
(* Geometry helpers *)

\* squared Euclidean distance: distance(p1, p2) is its square root
distance2(p1, p2) ==
    (p1[1] - p2[1]) * (p1[1] - p2[1]) + (p1[2] - p2[2]) * (p1[2] - p2[2])

RECURSIVE IntSqrtFrom(_, _)
IntSqrtFrom(n, r) == IF (r + 1) * (r + 1) > n THEN r ELSE IntSqrtFrom(n, r + 1)

\* int(sqrt(n)): truncation of a non-negative float
IntSqrt(n) == IntSqrtFrom(n, 0)

\* pts.sum(axis=1)
SumKey(p) == p[1] + p[2]

DiffKeyXMinusY(p) == p[1] - p[2]

\* np.diff(pts, axis=1): second column minus first column, y - x
DiffKey(p) == p[2] - p[1]

\* np.argmin: the first index holding the minimum
ArgMin(keys) ==
    CHOOSE i \in DOMAIN keys :
        /\ \A j \in DOMAIN keys : keys[i] <= keys[j]
        /\ \A j \in DOMAIN keys : j < i => keys[j] > keys[i]

\* np.argmax: the first index holding the maximum
ArgMax(keys) ==
    CHOOSE i \in DOMAIN keys :
        /\ \A j \in DOMAIN keys : keys[i] >= keys[j]
        /\ \A j \in DOMAIN keys : j < i => keys[j] < keys[i]

order_rect_by_position(p) == <<p[1], p[2], p[3], p[4]>>

order_rect(p) ==
    LET s == [i \in DOMAIN p |-> SumKey(p[i])]
        diff == [i \in DOMAIN p |-> DiffKey(p[i])]
    IN  <<p[ArgMin(s)], p[ArgMin(diff)], p[ArgMax(s)], p[ArgMax(diff)]>>

maxWidthMin(r) == IntSqrt(Min(distance2(r[3], r[4]), distance2(r[2], r[1])))

\* int(max(distance(br, bl), distance(tr, tl)))
maxWidth(r) == IntSqrt(Max(distance2(r[3], r[4]), distance2(r[2], r[1])))

\* the square root of n rounded to the nearest integer
IntSqrtRounded(n) ==
    LET r == IntSqrt(n) IN IF 4 * n >= (2 * r + 1) * (2 * r + 1) THEN r + 1 ELSE r

maxHeightRounded(r) == IntSqrtRounded(Max(distance2(r[2], r[3]), distance2(r[1], r[4])))

\* int(max(distance(tr, br), distance(tl, bl)))
maxHeight(r) == IntSqrt(Max(distance2(r[2], r[3]), distance2(r[1], r[4])))

\* cv2.warpPerspective(image, M, (maxWidth, maxHeight)): a new buffer of the
\* size asked for; an empty dsize makes OpenCV allocate the source's size.
\* Pixels outside the source are filled with the border value 0.
warpPerspective(img, wd, ht) ==
    IF wd <= 0 \/ ht <= 0
    THEN [img EXCEPT !.buf = "warp", !.vals = @ \cup {0}]
    ELSE [img EXCEPT !.w = wd, !.h = ht, !.buf = "warp", !.vals = @ \cup {0}]

four_point_transform(img, p) ==
    LET r == order_rect(p)
    IN  warpPerspective(img, maxWidth(r), maxHeight(r))

-----------------------------------------------------------------------------
(* A direct call of the helpers on 4 distinct points *)

Square100 == <<<<0, 0>>, <<100, 0>>, <<100, 100>>, <<0, 100>>>>
\* top 60, bottom 120, left 80, right 100
Trapezoid == <<<<0, 0>>, <<60, 0>>, <<120, 80>>, <<0, 80>>>>

\* a convex quadrilateral of which order_rect takes <<2, 3>> for BR and for BL
SlantedQuad == <<<<0, 0>>, <<3, 0>>, <<3, 1>>, <<2, 3>>>>

\* top and bottom 3, left and right the square root of 13 (3.6...)
Parallelogram == <<<<0, 0>>, <<3, 0>>, <<5, 3>>, <<2, 3>>>>

ExampleQuads == {Square100, Trapezoid, SlantedQuad, Parallelogram}

DistinctQuads ==
    {q \in [1..4 -> Grid] : \A i, j \in 1..4 : i # j => q[i] # q[j]}

InitGeom ==
    /\ pts \in DistinctQuads \cup ExampleQuads
    /\ rect = None
    /\ dims = <<0, 0>>
    /\ gpc = "call"
    /\ image = NoImage
    /\ area_threshold_ratio = 40
    /\ upscale_factor = 2
    /\ found = <<>>
    /\ contours = <<>>
    /\ idx = 0
    /\ screenCnt = None
    /\ warped = NoImage
    /\ upscaled = NoImage
    /\ gray = NoImage
    /\ binary = NoImage
    /\ pc = "off"
    /\ doc = <<>>
    /\ images = <<>>
    /\ processed = <<>>
    /\ pageNo = 0
    /\ output = None
    /\ qpc = "off"
    /\ HttpIdle
    /\ CliIdle

OrderRect ==
    /\ gpc = "call"
    /\ rect' = order_rect(pts)
    /\ gpc' = "ordered"
    /\ UNCHANGED <<pts, dims>>
    /\ UNCHANGED pipeVars
    /\ UNCHANGED pdfVars
    /\ UNCHANGED appVars

TargetSize ==
    /\ gpc = "ordered"
    /\ dims' = <<maxWidth(rect), maxHeight(rect)>>
    /\ gpc' = "sized"
    /\ UNCHANGED <<pts, rect>>
    /\ UNCHANGED pipeVars
    /\ UNCHANGED pdfVars
    /\ UNCHANGED appVars

NextGeom == OrderRect \/ TargetSize

SpecGeom == InitGeom /\ [][NextGeom]_vars

-----------------------------------------------------------------------------
(* process_image_cv *)

\* cv2.contourArea of a polygon with integer vertices, doubled: the absolute
\* value of the shoelace sum
RECURSIVE ShoelaceFrom(_, _)
ShoelaceFrom(poly, i) ==
    IF i > Len(poly) THEN 0
    ELSE LET a == poly[i]
             b == poly[IF i = Len(poly) THEN 1 ELSE i + 1]
         IN  a[1] * b[2] - b[1] * a[2] + ShoelaceFrom(poly, i + 1)

contourArea2(poly) == Abs(ShoelaceFrom(poly, 1))

\* sorted(contours, key=cv2.contourArea, reverse=True): a stable sort, equal
\* areas keep the order findContours gave them
RECURSIVE InsertByArea(_, _)
InsertByArea(c, sorted) ==
    IF sorted = <<>> THEN <<c>>
    ELSE IF Head(sorted).area2 >= c.area2
         THEN <<Head(sorted)>> \o InsertByArea(c, Tail(sorted))
         ELSE <<c>> \o sorted

RECURSIVE InsertAll(_)
InsertAll(cs) ==
    IF cs = <<>> THEN <<>>
    ELSE InsertByArea(cs[Len(cs)], InsertAll(SubSeq(cs, 1, Len(cs) - 1)))

SortedAscending(cs) ==
    LET s == InsertAll(cs) IN [i \in 1..Len(s) |-> s[Len(s) + 1 - i]]

SortedByArea(cs) == InsertAll(cs)

QualifiesAtLeast(c, ratio, img_area) ==
    /\ Len(c.approx) = 4
    /\ 100 * contourArea2(c.approx) >= 2 * ratio * img_area

\* len(approx) == 4 and cv2.contourArea(approx) > area_threshold_ratio * img_area
Qualifies(c, ratio, img_area) ==
    /\ Len(c.approx) = 4
    /\ 100 * contourArea2(c.approx) > 2 * ratio * img_area

\* cv2.resize(warped, (0, 0), fx=upscale_factor, fy=upscale_factor, INTER_CUBIC)
resize(img, f) == [img EXCEPT !.w = f * @, !.h = f * @, !.buf = "resize"]

\* cv2.cvtColor(upscaled, cv2.COLOR_BGR2GRAY) accepts 3 or 4 channels
cvtColorGray(img) == [img EXCEPT !.ch = 1, !.buf = "gray"]

MaxValue == 255
OffsetC == 30

adaptiveThresholdTruncate(img) ==
    [img EXCEPT !.buf = "binary",
                !.vals = {IF v > m - OffsetC THEN MaxValue ELSE v :
                              <<v, m>> \in img.vals \X img.vals}]

\* cv2.adaptiveThreshold(gray, 255, GAUSSIAN_C, THRESH_BINARY, 91, 30): a pixel
\* v becomes 255 when v > T - 30 and 0 otherwise, T a weighted mean of its
\* neighbourhood (here any level between those the image holds)
adaptiveThreshold(img) ==
    [img EXCEPT !.buf = "binary",
                !.vals = {IF v > m - OffsetC THEN MaxValue ELSE 0 :
                              <<v, m>> \in img.vals \X img.vals}]

\* The approximated polygons a contour can have, inside a 5 x 5 image
Triangle == <<<<0, 0>>, <<4, 0>>, <<0, 4>>>>
BigSquare == <<<<0, 0>>, <<4, 0>>, <<4, 4>>, <<0, 4>>>>
\* area 10: exactly 0.4 of a 5 x 5 image
QuadAt40 == <<<<0, 0>>, <<4, 0>>, <<4, 2>>, <<0, 3>>>>
\* area 10.5
QuadAbove40 == <<<<0, 0>>, <<4, 0>>, <<4, 3>>, <<1, 3>>>>
\* a tall kite: its top vertex is both TL and TR, its bottom both BR and BL
Kite == <<<<2, 0>>, <<3, 2>>, <<2, 4>>, <<1, 2>>>>
Pentagon == <<<<0, 0>>, <<4, 0>>, <<4, 3>>, <<2, 4>>, <<0, 3>>>>

Polygons == {Triangle, BigSquare, QuadAt40, QuadAbove40, Kite, SlantedQuad, Pentagon}

\* cv2.contourArea of the raw contours, doubled
RawAreas2 == {4, 24}

Candidates == [area2 : RawAreas2, approx : Polygons]

ContourLists == UNION {[1..n -> Candidates] : n \in 0..MaxContours}

ImageSizes == {<<5, 5>>, <<6, 5>>}
\* process_image_cv takes any float and any int: 1.5 and 6 lie outside the
\* ranges the command line and the HTTP layer accept
Ratios == {10, 40, 100, 150}
UpscaleFactors == {1, 2, 6}

\* image is None
NullImage == [w |-> 0, h |-> 0, ch |-> 0, buf |-> "input", vals |-> {}, kind |-> "null"]
\* an array of shape (5, 0, 3): no pixels
EmptyImage == [w |-> 0, h |-> 5, ch |-> 3, buf |-> "input", vals |-> {}, kind |-> "empty"]

Images ==
    {[w |-> s[1], h |-> s[2], ch |-> c, buf |-> "input", vals |-> v[2], kind |-> v[1]] :
        s \in ImageSizes, c \in {1, 3},
        v \in {<<"black", {0}>>, <<"scan", {20, 128, 250}>>}}
    \cup {NullImage, EmptyImage}

Init ==
    /\ image \in Images
    /\ area_threshold_ratio \in Ratios
    /\ upscale_factor \in UpscaleFactors
    \* an image without texture has no edges, so no contours
    /\ found \in IF image.kind = "scan" THEN ContourLists ELSE {<<>>}
    /\ contours = <<>>
    /\ idx = 0
    /\ screenCnt = None
    /\ warped = NoImage
    /\ upscaled = NoImage
    /\ gray = NoImage
    /\ binary = NoImage
    /\ pc = "start"
    /\ pts = None
    /\ rect = None
    /\ dims = <<0, 0>>
    /\ gpc = "off"
    /\ doc = <<>>
    /\ images = <<>>
    /\ processed = <<>>
    /\ pageNo = 0
    /\ output = None
    /\ qpc = "off"
    /\ HttpIdle
    /\ CliIdle

img_area == image.h * image.w

\* image.shape[:2] raises AttributeError when image is None
ShapeRaises ==
    /\ pc = "start"
    /\ image.kind = "null"
    /\ pc' = "rejected"
    /\ UNCHANGED <<image, area_threshold_ratio, upscale_factor, found, contours,
                   idx, screenCnt, warped, upscaled, gray, binary>>
    /\ UNCHANGED geomVars
    /\ UNCHANGED pdfVars
    /\ UNCHANGED appVars

gaussianBlurAcceptsAll(img) == TRUE

\* cv2.GaussianBlur asserts that its source has pixels
gaussianBlurAccepts(img) == img.w > 0 /\ img.h > 0

\* cv2.GaussianBlur raises cv2.error on an array without pixels
BlurRaises ==
    /\ pc = "start"
    /\ image.kind # "null"
    /\ ~gaussianBlurAccepts(image)
    /\ pc' = "rejected"
    /\ UNCHANGED <<image, area_threshold_ratio, upscale_factor, found, contours,
                   idx, screenCnt, warped, upscaled, gray, binary>>
    /\ UNCHANGED geomVars
    /\ UNCHANGED pdfVars
    /\ UNCHANGED appVars

\* blur, Canny, findContours and the sort by area
FindContours ==
    /\ pc = "start"
    /\ image.kind # "null"
    /\ gaussianBlurAccepts(image)
    /\ contours' = SortedByArea(found)
    /\ idx' = 1
    /\ screenCnt' = None
    /\ pc' = "scan"
    /\ UNCHANGED <<image, area_threshold_ratio, upscale_factor, found,
                   warped, upscaled, gray, binary>>
    /\ UNCHANGED geomVars
    /\ UNCHANGED pdfVars
    /\ UNCHANGED appVars

\* one pass of the for loop whose contour qualifies: select it and break
ScanSelect ==
    /\ pc = "scan"
    /\ idx <= Len(contours)
    /\ Qualifies(contours[idx], area_threshold_ratio, img_area)
    /\ screenCnt' = contours[idx].approx
    /\ pc' = "rectify"
    /\ UNCHANGED <<image, area_threshold_ratio, upscale_factor, found, contours,
                   idx, warped, upscaled, gray, binary>>
    /\ UNCHANGED geomVars
    /\ UNCHANGED pdfVars
    /\ UNCHANGED appVars

\* one pass of the for loop whose contour does not qualify
ScanSkip ==
    /\ pc = "scan"
    /\ idx <= Len(contours)
    /\ ~Qualifies(contours[idx], area_threshold_ratio, img_area)
    /\ idx' = idx + 1
    /\ UNCHANGED <<image, area_threshold_ratio, upscale_factor, found, contours,
                   screenCnt, warped, upscaled, gray, binary, pc>>
    /\ UNCHANGED geomVars
    /\ UNCHANGED pdfVars
    /\ UNCHANGED appVars

ScanExhaustedLate ==
    /\ pc = "scan"
    /\ idx > Len(contours) + 1
    /\ pc' = "rectify"
    /\ UNCHANGED <<image, area_threshold_ratio, upscale_factor, found, contours,
                   idx, screenCnt, warped, upscaled, gray, binary>>
    /\ UNCHANGED geomVars
    /\ UNCHANGED pdfVars
    /\ UNCHANGED appVars

\* the for loop ran out of contours
ScanExhausted ==
    /\ pc = "scan"
    /\ idx > Len(contours)
    /\ pc' = "rectify"
    /\ UNCHANGED <<image, area_threshold_ratio, upscale_factor, found, contours,
                   idx, screenCnt, warped, upscaled, gray, binary>>
    /\ UNCHANGED geomVars
    /\ UNCHANGED pdfVars
    /\ UNCHANGED appVars

rectifyAlwaysWarps(img, cnt) ==
    four_point_transform(img, IF cnt = None THEN BigSquare ELSE cnt)

\* if screenCnt is not None: four_point_transform(...) else: warped = image
rectify(img, cnt) ==
    IF cnt # None THEN four_point_transform(img, cnt) ELSE img

Rectify ==
    /\ pc = "rectify"
    /\ warped' = rectify(image, screenCnt)
    /\ pc' = "upscale"
    /\ UNCHANGED <<image, area_threshold_ratio, upscale_factor, found, contours,
                   idx, screenCnt, upscaled, gray, binary>>
    /\ UNCHANGED geomVars
    /\ UNCHANGED pdfVars
    /\ UNCHANGED appVars

UpscaleInPlace ==
    /\ pc = "upscale"
    /\ upscaled' = resize(warped, upscale_factor)
    /\ image' = IF warped = image THEN upscaled' ELSE image
    /\ pc' = "gray"
    /\ UNCHANGED <<area_threshold_ratio, upscale_factor, found, contours,
                   idx, screenCnt, warped, gray, binary>>
    /\ UNCHANGED geomVars
    /\ UNCHANGED pdfVars
    /\ UNCHANGED appVars

\* cv2.resize returns a new array
Upscale ==
    /\ pc = "upscale"
    /\ upscaled' = resize(warped, upscale_factor)
    /\ pc' = "gray"
    /\ UNCHANGED <<image, area_threshold_ratio, upscale_factor, found, contours,
                   idx, screenCnt, warped, gray, binary>>
    /\ UNCHANGED geomVars
    /\ UNCHANGED pdfVars
    /\ UNCHANGED appVars

Grayscale ==
    /\ pc = "gray"
    /\ upscaled.ch \in {3, 4}
    /\ gray' = cvtColorGray(upscaled)
    /\ pc' = "threshold"
    /\ UNCHANGED <<image, area_threshold_ratio, upscale_factor, found, contours,
                   idx, screenCnt, warped, upscaled, binary>>
    /\ UNCHANGED geomVars
    /\ UNCHANGED pdfVars
    /\ UNCHANGED appVars

\* cvtColor raises cv2.error on an image that has neither 3 nor 4 channels
GrayscaleRaises ==
    /\ pc = "gray"
    /\ upscaled.ch \notin {3, 4}
    /\ pc' = "raised"
    /\ UNCHANGED <<image, area_threshold_ratio, upscale_factor, found, contours,
                   idx, screenCnt, warped, upscaled, gray, binary>>
    /\ UNCHANGED geomVars
    /\ UNCHANGED pdfVars
    /\ UNCHANGED appVars

Threshold ==
    /\ pc = "threshold"
    /\ binary' = adaptiveThreshold(gray)
    /\ pc' = "done"
    /\ UNCHANGED <<image, area_threshold_ratio, upscale_factor, found, contours,
                   idx, screenCnt, warped, upscaled, gray>>
    /\ UNCHANGED geomVars
    /\ UNCHANGED pdfVars
    /\ UNCHANGED appVars

Next ==
    \/ ShapeRaises
    \/ BlurRaises
    \/ FindContours
    \/ ScanSelect
    \/ ScanSkip
    \/ ScanExhausted
    \/ Rectify
    \/ Upscale
    \/ Grayscale
    \/ GrayscaleRaises
    \/ Threshold

Spec == Init /\ [][Next]_vars

-----------------------------------------------------------------------------
(* Properties of process_image_cv, checked under Spec *)

AfterScan == {"rectify", "upscale", "gray", "threshold", "done", "raised"}
AfterRectify == {"upscale", "gray", "threshold", "done", "raised"}

Count(seq, c) == Cardinality({i \in 1..Len(seq) : seq[i] = c})

\* the positions of the sorted list whose simplified polygon has exactly 4
\* vertices and an area above area_threshold_ratio x image area
FourVertices(k) == Len(contours[k].approx) = 4
AreaAbove(k) ==
    100 * contourArea2(contours[k].approx) > 2 * area_threshold_ratio * (image.w * image.h)
AreaExactly(k) ==
    100 * contourArea2(contours[k].approx) = 2 * area_threshold_ratio * (image.w * image.h)
Qualifying == {k \in 1..Len(contours) : FourVertices(k) /\ AreaAbove(k)}

\* C1: the detector walks the contours in descending order of area, selects
\* the first whose simplified polygon has 4 vertices and an area strictly
\* above area_threshold_ratio x image_area and stops there; when none
\* qualifies, screenCnt stays None.
C1_FirstQualifyingSelected ==
    /\ pc \in {"scan"} \cup AfterScan =>
           /\ Len(contours) = Len(found)
           /\ \A c \in Candidates : Count(contours, c) = Count(found, c)
           /\ \A i, j \in 1..Len(contours) :
                  i < j => contours[i].area2 >= contours[j].area2
    /\ pc = "scan" =>
           /\ screenCnt = None
           /\ \A k \in Qualifying : k >= idx
    /\ pc \in AfterScan =>
           IF Qualifying = {}
           THEN screenCnt = None /\ idx = Len(contours) + 1
           ELSE /\ idx \in Qualifying
                /\ \A k \in Qualifying : idx <= k
                /\ screenCnt = contours[idx].approx

\* the larger contour is no quadrilateral, the next one qualifies; the sort
\* moved it from the second place of findContours's list to the first
C1_Witness ==
    /\ pc = "rectify"
    /\ found = <<[area2 |-> 4, approx |-> BigSquare], [area2 |-> 24, approx |-> Triangle]>>
    /\ contours = <<[area2 |-> 24, approx |-> Triangle], [area2 |-> 4, approx |-> BigSquare]>>
    /\ idx = 2
    /\ screenCnt = BigSquare

C3_PassThroughIsInput ==
    /\ (pc \in AfterScan /\ image.kind = "black") => screenCnt = None
    /\ (pc \in AfterRectify /\ screenCnt = None) =>
           /\ warped = image
           /\ warped.buf = "input"

C3_Witness ==
    /\ pc = "upscale"
    /\ image.kind = "black"
    /\ contours = <<>>
    /\ screenCnt = None
    /\ warped = image

\* three of the four ordered corners on one line (a repeated corner counts)
Collinear3(a, b, c) ==
    (b[1] - a[1]) * (c[2] - a[2]) - (b[2] - a[2]) * (c[1] - a[1]) = 0

Degenerate(r) ==
    \/ \E i, j, k \in 1..4 : i < j /\ j < k /\ Collinear3(r[i], r[j], r[k])
    \/ maxWidth(r) = 0
    \/ maxHeight(r) = 0

\* C4 as stated: whenever the selected quadrilateral is degenerate (ordered
\* corners collinear or repeated, or a target width or height of 0), the
\* pipeline falls back to the input image, unchanged, and never goes on
\* with a warp of it.
C4_DegenerateFallsBack ==
    (pc \in AfterRectify /\ screenCnt # None /\ Degenerate(order_rect(screenCnt))) =>
        warped = image

\* the state C4 fails in: the kite gives a target width of 0, and the
\* pipeline goes on with the buffer warpPerspective returned
C4_Witness ==
    /\ pc = "upscale"
    /\ screenCnt = Kite
    /\ maxWidth(order_rect(screenCnt)) = 0
    /\ warped.buf = "warp"

\* C5: the image process_image_cv returns has one channel and every pixel
\* of it is 0 or 255, after a warp and after a pass-through alike.
C5_BinaryOutput ==
    pc = "done" =>
        /\ binary.ch = 1
        /\ binary.vals \subseteq {0, 255}
        /\ binary.vals # {}

C5_Witness ==
    /\ pc = "done"
    /\ screenCnt = BigSquare
    /\ image.vals = {20, 128, 250}
    /\ binary.ch = 1
    /\ binary.vals = {0, 255}

\* C6 as stated: the output is upscale_factor x W wide and upscale_factor x
\* H high, (W, H) being the warp's target size when a quadrilateral was
\* selected (the warp output has exactly that size) and the input image's
\* size when none was.
C6_OutputSize ==
    LET r == order_rect(screenCnt)
        W == IF screenCnt # None THEN maxWidth(r) ELSE image.w
        H == IF screenCnt # None THEN maxHeight(r) ELSE image.h
    IN  /\ pc \in AfterRectify => warped.w = W /\ warped.h = H
        /\ pc = "done" => binary.w = upscale_factor * W /\ binary.h = upscale_factor * H

\* the state C6 fails in: target width 0, output as wide as the input image
C6_Witness ==
    /\ pc = "done"
    /\ screenCnt = Kite
    /\ maxWidth(order_rect(screenCnt)) = 0
    /\ binary.w = upscale_factor * image.w

\* C12 as stated: the selected quadrilateral is the largest qualifying one:
\* no other candidate with 4 vertices and an area above the threshold has a
\* simplified polygon of greater area than the selected one.
C12_LargestByPolygonArea ==
    (pc \in AfterScan /\ screenCnt # None) =>
        \A k \in Qualifying :
            contourArea2(contours[k].approx) <= contourArea2(screenCnt)

\* C12 amended: the selected quadrilateral is the qualifying candidate whose
\* contour (before simplification) has the greatest cv2.contourArea, the key
\* the list is sorted by; a qualifying candidate with a larger simplified
\* polygon but a smaller contour area is not preferred.
C12_LargestByContourArea ==
    (pc \in AfterScan /\ screenCnt # None) =>
        /\ screenCnt = contours[idx].approx
        /\ \A k \in Qualifying : contours[k].area2 <= contours[idx].area2

\* both qualify; the one selected has the larger contour area and the
\* smaller simplified polygon (10.5 against 16)
C12_Witness ==
    /\ pc = "rectify"
    /\ area_threshold_ratio = 40
    /\ image.w * image.h = 25
    /\ found = <<[area2 |-> 4, approx |-> BigSquare], [area2 |-> 24, approx |-> QuadAbove40]>>
    /\ Qualifying = {1, 2}
    /\ screenCnt = QuadAbove40

\* what the callers hand over after validation: a BGR image with pixels and
\* a configuration inside the documented ranges
ValidImage(img) == img.kind # "null" /\ img.w > 0 /\ img.h > 0 /\ img.ch = 3
ValidConfig == area_threshold_ratio \in 10..100 /\ upscale_factor \in 1..5

CompleteBinary ==
    /\ binary.buf = "binary"
    /\ binary.ch = 1
    /\ binary.w = upscale_factor * warped.w /\ binary.w > 0
    /\ binary.h = upscale_factor * warped.h /\ binary.h > 0
    /\ binary.vals # {} /\ binary.vals \subseteq {0, MaxValue}

\* the statements process_image_cv still has to run, at most
StepsLeft ==
    CASE pc = "start" -> Len(found) + 6
      [] pc = "scan" -> (Len(contours) + 1 - idx) + 5
      [] pc = "rectify" -> 4
      [] pc = "upscale" -> 3
      [] pc = "gray" -> 2
      [] pc = "threshold" -> 1
      [] OTHER -> 0

\* the statement the call stands at can run, and without raising (the
\* rectification has no condition besides the position of the call)
CanGoOn ==
    /\ pc = "start" => ENABLED FindContours
    /\ pc = "scan" => ENABLED (ScanSelect \/ ScanSkip \/ ScanExhausted)
    /\ pc = "upscale" => ENABLED Upscale
    /\ pc = "gray" => ENABLED Grayscale
    /\ pc = "threshold" => ENABLED Threshold

\* C13: on a validated BGR image and configuration, process_image_cv never
\* raises, always has a next statement to run until it returns, comes
\* closer to returning with every statement, hands out nothing before it
\* has finished, and returns a complete binary image, whatever contours the
\* detector found.
C13_TotalOnValidated ==
    /\ []((ValidImage(image) /\ ValidConfig) =>
              /\ pc \notin {"raised", "rejected"}
              /\ StepsLeft >= 0
              /\ (pc # "done" => CanGoOn /\ binary = NoImage)
              /\ (pc = "done" => CompleteBinary))
    /\ [][(ValidImage(image) /\ ValidConfig) => StepsLeft' < StepsLeft]_vars

\* a degenerate contour was selected and the call still returned an image
C13_Witness ==
    /\ pc = "done"
    /\ ValidImage(image) /\ ValidConfig
    /\ Len(found) = 2
    /\ screenCnt = Kite
    /\ CompleteBinary

NothingComputed ==
    /\ contours = <<>>
    /\ idx = 0
    /\ screenCnt = None
    /\ warped = NoImage
    /\ upscaled = NoImage
    /\ gray = NoImage
    /\ binary = NoImage

\* C14: a null image and an image without pixels make process_image_cv raise
\* at once: no contour search, warp, resize or threshold has produced
\* anything when it does.
C14_EmptyRejectedAtEntry ==
    (image.kind = "null" \/ image.w = 0 \/ image.h = 0) =>
        /\ pc \in {"start", "rejected"}
        /\ NothingComputed

C14_Witness ==
    /\ pc = "rejected"
    /\ image = EmptyImage
    /\ NothingComputed

\* C15 as stated: with area_threshold_ratio outside [0.1, 1.0] or
\* upscale_factor outside 1..5 the core raises before any stage has run.
C15_CoreRejectsConfig ==
    ~ValidConfig =>
        /\ pc \in {"start", "rejected"}
        /\ NothingComputed

\* the state C15 fails in: ratio 1.5 and factor 6 went through every stage
C15_Witness ==
    /\ pc = "done"
    /\ area_threshold_ratio = 150
    /\ upscale_factor = 6
    /\ binary.w = 6 * image.w

\* C20: no step of process_image_cv changes the image it was given, and on
\* the pass-through path the next stage receives that very buffer.
C20_InputNeverModified ==
    [][/\ image' = image
       /\ (pc' \in AfterRectify /\ screenCnt' = None) =>
              (warped' = image /\ warped'.buf = "input")]_vars

\* a pass-through run that finished: the stages worked on the input buffer
\* itself, which is as it was
C20_Witness ==
    /\ pc = "done"
    /\ image.kind = "scan"
    /\ image.buf = "input"
    /\ screenCnt = None
    /\ warped = image
    /\ upscaled.buf = "resize"

-----------------------------------------------------------------------------
(* Properties of the geometry helpers, checked under SpecGeom *)

Perms4 == {f \in [1..4 -> 1..4] : \A i, j \in 1..4 : i # j => f[i] # f[j]}
Permuted(p, f) == [i \in 1..4 |-> p[f[i]]]

PointsOf(p) == {p[i] : i \in DOMAIN p}

\* each of the four extremes (min and max of x+y, min and max of y-x) is
\* attained by exactly one of the points
UniqueExtremes(p) ==
    /\ \A a, b \in PointsOf(p) :
           (\A c \in PointsOf(p) : SumKey(a) <= SumKey(c) /\ SumKey(b) <= SumKey(c)) => a = b
    /\ \A a, b \in PointsOf(p) :
           (\A c \in PointsOf(p) : SumKey(a) >= SumKey(c) /\ SumKey(b) >= SumKey(c)) => a = b
    /\ \A a, b \in PointsOf(p) :
           (\A c \in PointsOf(p) : a[2] - a[1] <= c[2] - c[1] /\ b[2] - b[1] <= c[2] - c[1]) => a = b
    /\ \A a, b \in PointsOf(p) :
           (\A c \in PointsOf(p) : a[2] - a[1] >= c[2] - c[1] /\ b[2] - b[1] >= c[2] - c[1]) => a = b

\* C7 as stated: order_rect gives the same output for every one of the 24
\* orderings of the same 4 input points.
C7_PermutationInvariant ==
    gpc # "call" => \A f \in Perms4 : order_rect(Permuted(pts, f)) = rect

\* C7 amended: order_rect gives the same output for all 24 orderings of the
\* same 4 points whenever no two of them tie on an extreme of x+y or of y-x
\* (with a tie, the point that comes first in the input wins).
C7_PermutationInvariantNoTies ==
    (gpc # "call" /\ UniqueExtremes(pts)) =>
        \A f \in Perms4 : order_rect(Permuted(pts, f)) = rect

C7_Witness ==
    /\ gpc = "ordered"
    /\ UniqueExtremes(pts)
    /\ pts = <<<<2, 2>>, <<0, 0>>, <<0, 2>>, <<2, 0>>>>
    /\ rect = <<<<0, 0>>, <<2, 0>>, <<2, 2>>, <<0, 2>>>>

\* the first point of p, in input order, whose key is least / greatest
FirstLeast(p, key(_)) ==
    p[CHOOSE i \in 1..4 :
        /\ \A j \in 1..4 : key(p[i]) <= key(p[j])
        /\ \A j \in 1..(i - 1) : key(p[j]) # key(p[i])]
FirstGreatest(p, key(_)) ==
    p[CHOOSE i \in 1..4 :
        /\ \A j \in 1..4 : key(p[i]) >= key(p[j])
        /\ \A j \in 1..(i - 1) : key(p[j]) # key(p[i])]

XPlusY(p) == p[1] + p[2]
XMinusY(p) == p[1] - p[2]

C9_IsReordering ==
    gpc # "call" =>
        /\ Len(rect) = 4
        /\ \E f \in Perms4 : rect = Permuted(pts, f)

\* the state C9 fails in: one input corner fills two roles, another is dropped
C9_Witness ==
    /\ gpc = "ordered"
    /\ pts = SlantedQuad
    /\ rect = <<<<0, 0>>, <<3, 0>>, <<2, 3>>, <<2, 3>>>>

Wide2(r) ==
    LET a == distance2(r[2], r[1]) b == distance2(r[3], r[4]) IN IF a >= b THEN a ELSE b
High2(r) ==
    LET a == distance2(r[1], r[4]) b == distance2(r[2], r[3]) IN IF a >= b THEN a ELSE b

\* k is the square root of n2 rounded to the nearest integer
IsRounded(k, n2) ==
    /\ k >= 0
    /\ (2 * k - 1) * (2 * k - 1) <= 4 * n2
    /\ 4 * n2 < (2 * k + 1) * (2 * k + 1)

\* k is the square root of n2 with its fraction cut off
IsTruncated(k, n2) ==
    /\ k >= 0
    /\ k * k <= n2
    /\ \A m \in 0..(k + 1) : m * m <= n2 => m <= k

\* C11 as stated: for every quadrilateral, whole edge lengths or not,
\* targetWidth = round(max(dist(BR,BL), dist(TR,TL))) and
\* targetHeight = round(max(dist(TR,BR), dist(TL,BL))).
C11_RoundedTargetSize ==
    gpc = "sized" =>
        /\ IsRounded(dims[1], Wide2(rect))
        /\ IsRounded(dims[2], High2(rect))

\* C11 amended: targetWidth and targetHeight are those two maxima with the
\* fraction cut off (int(...)), not rounded to the nearest integer: a larger
\* edge of length 3.6 gives 3.
C11_TruncatedTargetSize ==
    gpc = "sized" =>
        /\ IsTruncated(dims[1], Wide2(rect))
        /\ IsTruncated(dims[2], High2(rect))

\* left and right edges of length 3.6...: the height is 3, not 4
C11_Witness ==
    /\ gpc = "sized"
    /\ pts = Parallelogram
    /\ rect = Parallelogram
    /\ dims = <<3, 3>>
    /\ IsTruncated(dims[2], High2(rect))
    /\ ~IsRounded(dims[2], High2(rect))

-----------------------------------------------------------------------------
(* enhance_pdf_from_path: decode every page, process every page, assemble *)

MaxPages == 3

\* process_image_cv(img) is called with the defaults of its signature
DefaultRatio == 40
DefaultUpscale == 2

\* pix.n of a rendered page
PixChannels == {1, 3, 4}

\* what findContours gives on a page: nothing, or the outline of a sheet
PageContours == {<<>>, <<[area2 |-> 24, approx |-> BigSquare]>>}

\* a page PyMuPDF cannot load or render
BrokenPage == [n |-> 0, w |-> 0, h |-> 0, cnts |-> <<>>, readable |-> FALSE]

Pages ==
    {[n |-> n, w |-> sz[1], h |-> sz[2], cnts |-> cs, readable |-> TRUE] :
        n \in PixChannels, sz \in ImageSizes, cs \in PageContours}
    \cup {BrokenPage}

Docs == UNION {[1..n -> Pages] : n \in 0..MaxPages}

\* np.frombuffer(pix.samples).reshape(pix.height, pix.width, pix.n), and
\* cvtColor(BGRA2BGR) only if pix.n == 4
pixmap_to_image(page) ==
    [w |-> page.w, h |-> page.h, ch |-> IF page.n = 4 THEN 3 ELSE page.n,
     buf |-> "input", vals |-> {20, 128, 250}, kind |-> "scan"]

\* the for loop over the sorted contours: the first that qualifies, or None
selectContour(cs, ratio, area) ==
    LET hits == {k \in 1..Len(cs) : Qualifies(cs[k], ratio, area)}
    IN  IF hits = {} THEN None
        ELSE cs[CHOOSE k \in hits : \A m \in hits : k <= m].approx

\* one call of process_image_cv on an image with pixels, start to end: ok
\* tells whether it returned, img what it returned
process_image_cv(img, cnts, ratio, f) ==
    LET cnt == selectContour(SortedByArea(cnts), ratio, img.h * img.w)
        up == resize(rectify(img, cnt), f)
    IN  IF up.ch \in {3, 4}
        THEN [ok |-> TRUE, img |-> adaptiveThreshold(cvtColorGray(up))]
        ELSE [ok |-> FALSE, img |-> NoImage]

\* the call as a whole returns what the statements of Spec arrive at
StepwiseAgrees ==
    /\ pc = "done" =>
           process_image_cv(image, found, area_threshold_ratio, upscale_factor)
               = [ok |-> TRUE, img |-> binary]
    /\ pc = "raised" =>
           ~process_image_cv(image, found, area_threshold_ratio, upscale_factor).ok

processPage(k) ==
    process_image_cv(images[k], doc[k].cnts, DefaultRatio, DefaultUpscale)

\* Image.fromarray(img).convert('RGB')
toRGB(img) == [img EXCEPT !.ch = 3, !.buf = "pdf"]

images_to_pdf_reversed(imgs) ==
    [i \in 1..Len(imgs) |-> toRGB(imgs[Len(imgs) + 1 - i])]

\* pil_images[0].save(path, save_all=True, append_images=pil_images[1:])
images_to_pdf_from_arrays(imgs) == [i \in 1..Len(imgs) |-> toRGB(imgs[i])]

InitPdf ==
    /\ HttpIdle
    /\ CliIdle
    /\ doc \in Docs
    /\ images = <<>>
    /\ processed = <<>>
    /\ pageNo = 0
    /\ output = None
    /\ qpc = "decode"
    /\ image = NoImage
    /\ area_threshold_ratio = DefaultRatio
    /\ upscale_factor = DefaultUpscale
    /\ found = <<>>
    /\ contours = <<>>
    /\ idx = 0
    /\ screenCnt = None
    /\ warped = NoImage
    /\ upscaled = NoImage
    /\ gray = NoImage
    /\ binary = NoImage
    /\ pc = "off"
    /\ pts = None
    /\ rect = None
    /\ dims = <<0, 0>>
    /\ gpc = "off"

\* pdf_to_images_in_memory returns the list of page images
Decode ==
    /\ qpc = "decode"
    /\ \A k \in 1..Len(doc) : doc[k].readable
    /\ images' = [k \in 1..Len(doc) |-> pixmap_to_image(doc[k])]
    /\ pageNo' = 1
    /\ qpc' = "process"
    /\ UNCHANGED <<doc, processed, output>>
    /\ UNCHANGED pipeVars
    /\ UNCHANGED geomVars
    /\ UNCHANGED appVars

\* any exception inside the page loop leaves through the one except clause:
\* no page image is returned
DecodeRaises ==
    /\ qpc = "decode"
    /\ \E k \in 1..Len(doc) : ~doc[k].readable
    /\ qpc' = "raised"
    /\ UNCHANGED <<doc, images, processed, pageNo, output>>
    /\ UNCHANGED pipeVars
    /\ UNCHANGED geomVars
    /\ UNCHANGED appVars

ProcessPageCarrying ==
    /\ qpc = "process"
    /\ pageNo <= Len(images)
    /\ LET cs == IF pageNo > 1 /\ doc[pageNo].cnts = <<>>
                 THEN doc[pageNo - 1].cnts ELSE doc[pageNo].cnts
           r == process_image_cv(images[pageNo], cs, DefaultRatio, DefaultUpscale)
       IN  /\ r.ok
           /\ processed' = Append(processed, r.img)
    /\ pageNo' = pageNo + 1
    /\ UNCHANGED <<doc, images, output, qpc>>
    /\ UNCHANGED pipeVars
    /\ UNCHANGED geomVars
    /\ UNCHANGED appVars

\* one element of [process_image_cv(img) for img in images]
ProcessPage ==
    /\ qpc = "process"
    /\ pageNo <= Len(images)
    /\ processPage(pageNo).ok
    /\ processed' = Append(processed, processPage(pageNo).img)
    /\ pageNo' = pageNo + 1
    /\ UNCHANGED <<doc, images, output, qpc>>
    /\ UNCHANGED pipeVars
    /\ UNCHANGED geomVars
    /\ UNCHANGED appVars

\* process_image_cv raises inside the comprehension: the list built so far
\* is dropped and enhance_pdf_from_path ends with the exception
ProcessPageRaises ==
    /\ qpc = "process"
    /\ pageNo <= Len(images)
    /\ ~processPage(pageNo).ok
    /\ processed' = <<>>
    /\ qpc' = "raised"
    /\ UNCHANGED <<doc, images, pageNo, output>>
    /\ UNCHANGED pipeVars
    /\ UNCHANGED geomVars
    /\ UNCHANGED appVars

AssembleWithoutCheck ==
    /\ qpc = "process"
    /\ pageNo > Len(images)
    /\ output' = images_to_pdf_from_arrays(processed)
    /\ qpc' = "done"
    /\ UNCHANGED <<doc, images, processed, pageNo>>
    /\ UNCHANGED pipeVars
    /\ UNCHANGED geomVars
    /\ UNCHANGED appVars

Assemble ==
    /\ qpc = "process"
    /\ pageNo > Len(images)
    /\ processed # <<>>
    /\ output' = images_to_pdf_from_arrays(processed)
    /\ qpc' = "done"
    /\ UNCHANGED <<doc, images, processed, pageNo>>
    /\ UNCHANGED pipeVars
    /\ UNCHANGED geomVars
    /\ UNCHANGED appVars

\* if not images: raise Exception("No images were processed to save.")
AssembleRaises ==
    /\ qpc = "process"
    /\ pageNo > Len(images)
    /\ processed = <<>>
    /\ qpc' = "raised"
    /\ UNCHANGED <<doc, images, processed, pageNo, output>>
    /\ UNCHANGED pipeVars
    /\ UNCHANGED geomVars
    /\ UNCHANGED appVars

NextPdf ==
    \/ Decode
    \/ DecodeRaises
    \/ ProcessPage
    \/ ProcessPageRaises
    \/ Assemble
    \/ AssembleRaises

SpecPdf == InitPdf /\ [][NextPdf]_vars

-----------------------------------------------------------------------------
(* Properties of enhance_pdf_from_path, checked under SpecPdf *)

\* what the pipeline makes of a page taken alone
Alone(page) ==
    process_image_cv(pixmap_to_image(page), page.cnts, DefaultRatio, DefaultUpscale)

Processable(page) == page.readable /\ Alone(page).ok

\* C16 as stated: when the run has ended, every page that can be processed
\* has been processed and is in the output, also when another page failed.
C16_FailureDoesNotBlockOthers ==
    qpc \in {"done", "raised"} =>
        \A k \in 1..Len(doc) :
            Processable(doc[k]) =>
                /\ output # None
                /\ \E m \in 1..Len(output) : output[m] = toRGB(Alone(doc[k]).img)

\* the state C16 fails in: the first page was processed, the second made
\* process_image_cv raise, and nothing of the first is left
C16_Witness ==
    /\ qpc = "raised"
    /\ Len(doc) = 2
    /\ Processable(doc[1])
    /\ doc[2].readable /\ ~Processable(doc[2])
    /\ pageNo = 2
    /\ processed = <<>>
    /\ output = None

\* C17: a run that writes its output writes one page per input page, and
\* page i of the output is the processed image of page i of the input; the
\* decoded list and the processed list keep that order on the way.
C17_PageOrderPreserved ==
    /\ qpc \in {"process", "done"} =>
           /\ Len(images) = Len(doc)
           /\ \A k \in 1..Len(doc) : images[k] = pixmap_to_image(doc[k])
           /\ Len(processed) = Min(pageNo, Len(doc) + 1) - 1
           /\ \A k \in 1..Len(processed) : processed[k] = Alone(doc[k]).img
    /\ qpc = "done" =>
           /\ output # None
           /\ Len(output) = Len(doc)
           /\ \A k \in 1..Len(doc) : output[k] = toRGB(Alone(doc[k]).img)

\* three pages that give three different outputs, written in their order
C17_Witness ==
    /\ qpc = "done"
    /\ Len(doc) = 3
    /\ Len(output) = 3
    /\ output[1].w = 8 /\ output[1].h = 8
    /\ output[2].w = 10 /\ output[2].h = 10
    /\ output[3].w = 12 /\ output[3].h = 10

C24_NoPagesNoOutput ==
    /\ (qpc = "process" /\ pageNo > Len(images) /\ processed = <<>>) =>
           /\ output = None
           /\ ENABLED AssembleRaises
           /\ ~ENABLED Assemble
    /\ Len(doc) = 0 =>
           /\ output = None
           /\ qpc \in {"decode", "process", "raised"}
           /\ qpc = "process" => (pageNo = 1 /\ images = <<>> /\ processed = <<>>)

\* the run on a PDF without pages, ended by the exception
C24_Witness ==
    /\ qpc = "raised"
    /\ doc = <<>>
    /\ images = <<>>
    /\ pageNo = 1
    /\ output = None

-----------------------------------------------------------------------------
(* app.py: the endpoints /pimp, /pimp-pdf and /pimp-image *)

MaxNameLen == 3

\* a file name is a run of pieces: the dot and words without a dot
Pieces == {".", "pdf", "PDF", "png", "txt"}

Names == UNION {[1..n -> Pieces] : n \in 0..MaxNameLen}

\* str.lower()
lower(name) == [i \in 1..Len(name) |-> IF name[i] = "PDF" THEN "pdf" ELSE name[i]]

\* name.split('.')[-1]: what follows the last dot, the whole name without one
lastPart(name) ==
    LET dots == {i \in 1..Len(name) : name[i] = "."}
        from == IF dots = {} THEN 0 ELSE CHOOSE i \in dots : \A j \in dots : j <= i
    IN  SubSeq(name, from + 1, Len(name))

pdf_formats == {"pdf"}
image_formats == {"png", "jpg", "jpeg", "bmp", "tiff", "tif"}

\* file_ext in formats: no two pieces joined make a word of the lists
extIn(part, formats) == Len(part) = 1 /\ part[1] \in formats

endswithPdf(name) == Len(name) >= 1 /\ name[Len(name)] = "pdf"

\* name.endswith('.pdf')
endswithDotPdf(name) ==
    /\ Len(name) >= 2
    /\ name[Len(name) - 1] = "."
    /\ name[Len(name)] = "pdf"

\* the form fields pass FastAPI's ge/le bounds before an endpoint runs
Requests ==
    [filename : Names, dpi : {72, 200}, area_threshold : {10, 40},
     upscale_factor : {2, 5}]

pdfCallForwarding(r) ==
    [pipeline |-> "pdf", dpi |-> r.dpi,
     area_threshold_ratio |-> r.area_threshold, upscale_factor |-> r.upscale_factor]

\* enhance_pdf_from_path(in, out, dpi), whose pages go through
\* process_image_cv(img) with the defaults of its signature
pdfCall(r) ==
    [pipeline |-> "pdf", dpi |-> r.dpi,
     area_threshold_ratio |-> DefaultRatio, upscale_factor |-> DefaultUpscale]

\* enhance_image_from_path(in, out, area_threshold, upscale_factor, quality)
imageCall(r) ==
    [pipeline |-> "image",
     area_threshold_ratio |-> r.area_threshold, upscale_factor |-> r.upscale_factor]

InitHttp ==
    /\ entry \in {"pimp", "pimp-pdf", "pimp-image"}
    /\ req \in Requests
    /\ hpc = entry
    /\ route = "none"
    /\ sentTo = "none"
    /\ status = 0
    /\ tmpIn = "unbound"
    /\ tmpOut = "unbound"
    /\ used = NoCall
    /\ CliIdle
    /\ doc = <<>>
    /\ images = <<>>
    /\ processed = <<>>
    /\ pageNo = 0
    /\ output = None
    /\ qpc = "off"
    /\ image = NoImage
    /\ area_threshold_ratio = DefaultRatio
    /\ upscale_factor = DefaultUpscale
    /\ found = <<>>
    /\ contours = <<>>
    /\ idx = 0
    /\ screenCnt = None
    /\ warped = NoImage
    /\ upscaled = NoImage
    /\ gray = NoImage
    /\ binary = NoImage
    /\ pc = "off"
    /\ pts = None
    /\ rect = None
    /\ dims = <<0, 0>>
    /\ gpc = "off"

HttpFrame ==
    /\ UNCHANGED <<entry, req>>
    /\ UNCHANGED cliVars
    /\ UNCHANGED pipeVars
    /\ UNCHANGED geomVars
    /\ UNCHANGED pdfVars

\* pimp_file_endpoint: 400 without a file name or with an extension of
\* neither list, else a call of the endpoint of the matching list
PimpFile ==
    /\ hpc = "pimp"
    /\ LET ext == lastPart(lower(req.filename))
       IN  IF req.filename = <<>> \/ ~extIn(ext, pdf_formats \cup image_formats)
           THEN status' = 400 /\ hpc' = "done" /\ route' = route
           ELSE IF extIn(ext, pdf_formats)
           THEN status' = status /\ hpc' = "pimp-pdf" /\ route' = "pdf"
           ELSE status' = status /\ hpc' = "pimp-image" /\ route' = "image"
    /\ UNCHANGED <<sentTo, tmpIn, tmpOut, used>>
    /\ HttpFrame

\* pimp_pdf_endpoint: if not file.filename.lower().endswith('.pdf'): 400
PimpPdfValidate ==
    /\ hpc = "pimp-pdf"
    /\ IF ~endswithDotPdf(lower(req.filename))
       THEN status' = 400 /\ hpc' = "done" /\ sentTo' = sentTo
       ELSE status' = status /\ hpc' = "mk_in" /\ sentTo' = "pdf"
    /\ UNCHANGED <<route, tmpIn, tmpOut, used>>
    /\ HttpFrame

\* pimp_image_endpoint: 400 without a file name or with an extension that
\* is not in supported_formats
PimpImageValidate ==
    /\ hpc = "pimp-image"
    /\ IF req.filename = <<>> \/ ~extIn(lastPart(lower(req.filename)), image_formats)
       THEN status' = 400 /\ hpc' = "done" /\ sentTo' = sentTo
       ELSE status' = status /\ hpc' = "mk_in" /\ sentTo' = "image"
    /\ UNCHANGED <<route, tmpIn, tmpOut, used>>
    /\ HttpFrame

\* with tempfile.NamedTemporaryFile(delete=False, ...) as temp_input
MakeInput ==
    /\ hpc = "mk_in"
    /\ \E fails \in BOOLEAN :
           IF fails THEN hpc' = "handler" /\ tmpIn' = tmpIn
           ELSE hpc' = "write" /\ tmpIn' = "present"
    /\ UNCHANGED <<route, sentTo, status, tmpOut, used>>
    /\ HttpFrame

\* content = await file.read(); temp_input.write(content); flush()
WriteInput ==
    /\ hpc = "write"
    /\ \E fails \in BOOLEAN : hpc' = IF fails THEN "handler" ELSE "mk_out"
    /\ UNCHANGED <<route, sentTo, status, tmpIn, tmpOut, used>>
    /\ HttpFrame

\* with tempfile.NamedTemporaryFile(delete=False, ...) as temp_output
MakeOutput ==
    /\ hpc = "mk_out"
    /\ \E fails \in BOOLEAN :
           IF fails THEN hpc' = "handler" /\ tmpOut' = tmpOut
           ELSE hpc' = "enhance" /\ tmpOut' = "present"
    /\ UNCHANGED <<route, sentTo, status, tmpIn, used>>
    /\ HttpFrame

\* the call of enhance_pdf_from_path or enhance_image_from_path
Enhance ==
    /\ hpc = "enhance"
    /\ used' = IF sentTo = "pdf" THEN pdfCall(req) ELSE imageCall(req)
    /\ \E fails \in BOOLEAN : hpc' = IF fails THEN "handler" ELSE "read"
    /\ UNCHANGED <<route, sentTo, status, tmpIn, tmpOut>>
    /\ HttpFrame

\* with open(temp_output.name, 'rb') as f: f.read()
ReadOutput ==
    /\ hpc = "read"
    /\ \E fails \in BOOLEAN : hpc' = IF fails THEN "handler" ELSE "unlink_in"
    /\ UNCHANGED <<route, sentTo, status, tmpIn, tmpOut, used>>
    /\ HttpFrame

\* os.unlink(temp_input.name): removes the file or raises OSError
UnlinkInput ==
    /\ hpc = "unlink_in"
    /\ \E fails \in BOOLEAN :
           IF fails THEN hpc' = "handler" /\ tmpIn' = tmpIn
           ELSE hpc' = "unlink_out" /\ tmpIn' = "absent"
    /\ UNCHANGED <<route, sentTo, status, tmpOut, used>>
    /\ HttpFrame

\* os.unlink(temp_output.name): removes the file or raises OSError
UnlinkOutput ==
    /\ hpc = "unlink_out"
    /\ \E fails \in BOOLEAN :
           IF fails THEN hpc' = "handler" /\ tmpOut' = tmpOut
           ELSE hpc' = "respond" /\ tmpOut' = "absent"
    /\ UNCHANGED <<route, sentTo, status, tmpIn, used>>
    /\ HttpFrame

\* building the response: the name for the download and the Response object
Respond ==
    /\ hpc = "respond"
    /\ \E fails \in BOOLEAN :
           IF fails THEN hpc' = "handler" /\ status' = status
           ELSE hpc' = "done" /\ status' = 200
    /\ UNCHANGED <<route, sentTo, tmpIn, tmpOut, used>>
    /\ HttpFrame

\* except Exception: one try around both removals, then HTTP 500. A file
\* that is not there makes os.unlink raise; one that is there is removed,
\* or the call raises. The first raise skips what is left of the cleanup.
Handler ==
    /\ hpc = "handler"
    /\ \E inRaises, outRaises \in BOOLEAN :
           LET inFails == tmpIn = "absent" \/ (tmpIn = "present" /\ inRaises)
               outFails == tmpOut = "absent" \/ (tmpOut = "present" /\ outRaises)
           IN  /\ tmpIn' = IF tmpIn = "present" /\ ~inFails THEN "absent" ELSE tmpIn
               /\ tmpOut' = IF tmpOut = "present" /\ ~inFails /\ ~outFails
                            THEN "absent" ELSE tmpOut
    /\ status' = 500
    /\ hpc' = "done"
    /\ UNCHANGED <<route, sentTo, used>>
    /\ HttpFrame

NextHttp ==
    \/ PimpFile
    \/ PimpPdfValidate
    \/ PimpImageValidate
    \/ MakeInput
    \/ WriteInput
    \/ MakeOutput
    \/ Enhance
    \/ ReadOutput
    \/ UnlinkInput
    \/ UnlinkOutput
    \/ Respond
    \/ Handler

SpecHttp == InitHttp /\ [][NextHttp]_vars

-----------------------------------------------------------------------------
(* Properties of the endpoints, checked under SpecHttp *)

Supported == pdf_formats \cup image_formats

\* the request has left the validation of the endpoint /pimp handed it to
PastValidation == hpc \notin {"pimp", "pimp-pdf", "pimp-image"}

NoDot(name) == \A i \in 1..Len(name) : name[i] # "."

\* the lower-case extension of the request's file name
Ext == lastPart(lower(req.filename))

PimpRejects == req.filename = <<>> \/ ~extIn(Ext, Supported)

\* C21 as stated: /pimp answers 400 without a file name or with an
\* extension outside the lists; every other request is sent to the PDF
\* pipeline when its extension is pdf and to the image pipeline otherwise,
\* so whatever /pimp accepts is processed by exactly one pipeline.
C21_AcceptedIsProcessed ==
    (entry = "pimp" /\ PastValidation) =>
        IF PimpRejects THEN status = 400 /\ sentTo = "none"
        ELSE IF extIn(Ext, pdf_formats) THEN sentTo = "pdf"
        ELSE sentTo = "image"

\* C21 amended: as above, except that a file name without a dot counts as
\* its own extension: named like an image format it is sent to the image
\* pipeline, named pdf it passes the check of /pimp and is answered 400 by
\* pimp_pdf_endpoint, sent to no pipeline.
C21_RoutedByExtension ==
    /\ (entry = "pimp" /\ hpc # "pimp") =>
           /\ PimpRejects <=> (route = "none" /\ status = 400 /\ hpc = "done")
           /\ route = "pdf" <=> (~PimpRejects /\ extIn(Ext, pdf_formats))
           /\ route = "image" <=> (~PimpRejects /\ extIn(Ext, image_formats))
    /\ (entry = "pimp" /\ PastValidation) =>
           /\ route = "none" => sentTo = "none"
           /\ route = "image" => sentTo = "image"
           /\ route = "pdf" =>
                  IF NoDot(req.filename)
                  THEN sentTo = "none" /\ status = 400 /\ hpc = "done"
                  ELSE sentTo = "pdf"

\* an upper-case extension after a second word: the PDF pipeline answered
C21_Witness ==
    /\ entry = "pimp"
    /\ req.filename = <<"txt", ".", "PDF">>
    /\ route = "pdf"
    /\ sentTo = "pdf"
    /\ used.pipeline = "pdf"
    /\ status = 200

\* C22 as stated: when an endpoint has answered 200 or 500, neither of its
\* temporary files is left.
C22_TempFilesRemoved ==
    (hpc = "done" /\ status \in {200, 500}) =>
        /\ tmpIn # "present"
        /\ tmpOut # "present"

\* the state C22 fails in: the input file was removed, removing the output
\* file raised, and the handler gave up at the input file that was gone
C22_Witness ==
    /\ hpc = "done"
    /\ status = 500
    /\ tmpIn = "absent"
    /\ tmpOut = "present"

\* C23: a PDF is processed with area_threshold_ratio 0.4 and upscale_factor
\* 2 whatever the request says, its dpi being the only field handed on; an
\* image is processed with the request's area_threshold and upscale_factor
\* and dpi is not handed on.
C23_PdfUsesDefaults ==
    /\ used.pipeline = "pdf" =>
           /\ sentTo = "pdf"
           /\ used.area_threshold_ratio = DefaultRatio
           /\ used.upscale_factor = DefaultUpscale
           /\ used.dpi = req.dpi
    /\ used.pipeline = "image" =>
           /\ sentTo = "image"
           /\ DOMAIN used = {"pipeline", "area_threshold_ratio", "upscale_factor"}
           /\ used.area_threshold_ratio = req.area_threshold
           /\ used.upscale_factor = req.upscale_factor

\* a PDF sent to /pimp with area_threshold 0.1 and upscale_factor 5
C23_Witness ==
    /\ entry = "pimp"
    /\ status = 200
    /\ sentTo = "pdf"
    /\ req.area_threshold = 10
    /\ req.upscale_factor = 5
    /\ used.area_threshold_ratio = 40
    /\ used.upscale_factor = 2

-----------------------------------------------------------------------------
(* image_enhancer.py: the command-line main *)

\* the parsed arguments, the threshold in hundredths; exists tells whether
\* the input file is there, raises whether enhance_image_from_path raises
CommandLines ==
    [exists : BOOLEAN, area_threshold : {9, 10, 40, 100, 101},
     upscale : {0, 1, 5, 6}, quality : {0, 1, 100, 101}, raises : BOOLEAN]

\* 0.1 <= args.area_threshold <= 1.0
areaThresholdOk(a) == 10 <= a /\ a <= 100

upscaleOkUpTo6(u) == 1 <= u /\ u <= 6

\* 1 <= args.upscale <= 5
upscaleOk(u) == 1 <= u /\ u <= 5

\* 1 <= args.quality <= 100
qualityOk(q) == 1 <= q /\ q <= 100

InitCli ==
    /\ args \in CommandLines
    /\ cpc = "input"
    /\ called = FALSE
    /\ rc = -1
    /\ HttpIdle
    /\ doc = <<>>
    /\ images = <<>>
    /\ processed = <<>>
    /\ pageNo = 0
    /\ output = None
    /\ qpc = "off"
    /\ image = NoImage
    /\ area_threshold_ratio = DefaultRatio
    /\ upscale_factor = DefaultUpscale
    /\ found = <<>>
    /\ contours = <<>>
    /\ idx = 0
    /\ screenCnt = None
    /\ warped = NoImage
    /\ upscaled = NoImage
    /\ gray = NoImage
    /\ binary = NoImage
    /\ pc = "off"
    /\ pts = None
    /\ rect = None
    /\ dims = <<0, 0>>
    /\ gpc = "off"

CliFrame ==
    /\ UNCHANGED args
    /\ UNCHANGED httpVars
    /\ UNCHANGED pipeVars
    /\ UNCHANGED geomVars
    /\ UNCHANGED pdfVars

\* if not os.path.exists(args.input): return 1
CheckInput ==
    /\ cpc = "input"
    /\ IF args.exists
       THEN cpc' = "area_threshold" /\ rc' = rc
       ELSE cpc' = "returned" /\ rc' = 1
    /\ UNCHANGED called
    /\ CliFrame

\* if not 0.1 <= args.area_threshold <= 1.0: return 1
CheckAreaThreshold ==
    /\ cpc = "area_threshold"
    /\ IF areaThresholdOk(args.area_threshold)
       THEN cpc' = "upscale" /\ rc' = rc
       ELSE cpc' = "returned" /\ rc' = 1
    /\ UNCHANGED called
    /\ CliFrame

\* if not 1 <= args.upscale <= 5: return 1
CheckUpscale ==
    /\ cpc = "upscale"
    /\ IF upscaleOk(args.upscale)
       THEN cpc' = "quality" /\ rc' = rc
       ELSE cpc' = "returned" /\ rc' = 1
    /\ UNCHANGED called
    /\ CliFrame

\* if not 1 <= args.quality <= 100: return 1
CheckQuality ==
    /\ cpc = "quality"
    /\ IF qualityOk(args.quality)
       THEN cpc' = "enhance" /\ rc' = rc
       ELSE cpc' = "returned" /\ rc' = 1
    /\ UNCHANGED called
    /\ CliFrame

\* output_path = enhance_image_from_path(...)
CallEnhance ==
    /\ cpc = "enhance"
    /\ called' = TRUE
    /\ cpc' = IF args.raises THEN "except" ELSE "success"
    /\ UNCHANGED rc
    /\ CliFrame

\* print(...); return 0
ReturnSuccess ==
    /\ cpc = "success"
    /\ rc' = 0
    /\ cpc' = "returned"
    /\ UNCHANGED called
    /\ CliFrame

\* except Exception as e: print(...); return 1
ExceptReturn ==
    /\ cpc = "except"
    /\ rc' = 1
    /\ cpc' = "returned"
    /\ UNCHANGED called
    /\ CliFrame

NextCli ==
    \/ CheckInput
    \/ CheckAreaThreshold
    \/ CheckUpscale
    \/ CheckQuality
    \/ CallEnhance
    \/ ReturnSuccess
    \/ ExceptReturn

SpecCli == InitCli /\ [][NextCli]_vars

-----------------------------------------------------------------------------
(* Properties of main, checked under SpecCli *)

InvalidCommandLine ==
    \/ ~args.exists
    \/ args.area_threshold < 10 \/ args.area_threshold > 100
    \/ args.upscale \notin 1..5
    \/ args.quality \notin 1..100

\* C25: with a missing input file or an area threshold, upscale or quality
\* outside its range main returns 1 and never calls
\* enhance_image_from_path; it returns 0 only after that call came back
\* without an exception, and 1 whenever the call raised.
C25_ExitCodes ==
    /\ cpc = "returned" <=> rc \in {0, 1}
    /\ cpc # "returned" => rc = -1
    /\ InvalidCommandLine => ~called /\ rc # 0
    /\ rc = 0 => called /\ ~args.raises /\ ~InvalidCommandLine
    /\ (called /\ args.raises /\ cpc = "returned") => rc = 1
    /\ (~InvalidCommandLine /\ cpc = "returned") => called

\* everything in range but an upscale of 6: returned 1 without the call
C25_Witness ==
    /\ cpc = "returned"
    /\ rc = 1
    /\ args.exists
    /\ args.area_threshold = 100
    /\ args.upscale = 6
    /\ args.quality = 1
    /\ ~called

====
